---- MODULE Spec2Model ----
(***************************************************************************)
(* A model of the analyzer signals of biome_analyze (signals.rs):          *)
(*   - RuleSignal: diagnostic(), actions(), transformations()              *)
(*   - DiagnosticSignal: new, with_action and the three accessors          *)
(*   - AnalyzerActionIter and its two views (advice, flat suggestion)      *)
(* together with NoAriaHiddenOnFocusable::run (biome_js_analyze) and the   *)
(* exit logic of execute_mode (biome_cli).                                 *)
(* Each accessor is one action; it records what the call returned and,     *)
(* in order, which collaborators (option lookups, context construction,    *)
(* rule hooks, factories) the call invoked.                                *)
(***************************************************************************)
EXTENDS Integers, Sequences, FiniteSets, TLC

VARIABLES
    signal,     \* the RuleSignal under evaluation (signals.rs 306-315)
    dsignal,    \* the DiagnosticSignal under evaluation (signals.rs 29-34)
    last,       \* the last accessor call: [op, ret, trace]
    returned,   \* accessor name -> set of the results it has returned so far
    iter,       \* an action iterator or one of its views: [kind, items]
    yielded,    \* what the last next() on iter returned (an Option)
    taken,      \* the action that next() took out of the underlying IntoIter
    hist,       \* of iter: the sequence it was built from, what it has handed
                \* out so far, and whether a next() has returned None
    node,       \* the JSX element NoAriaHiddenOnFocusable::run is queried on
    found,      \* what run returned: its Signals (an Option), once it has run
    exec        \* one call of execute_mode: its inputs, what traversal and
                \* report came to, and the Result it returned

vars == <<signal, dsignal, last, returned, iter, yielded, taken,
          hist, node, found, exec>>

----------------------------------------------------------------------------
(* Option<T>: None is the empty sequence, Some(x) the one-element sequence *)

None == <<>>
Some(x) == <<x>>
IsSome(o) == o # <<>>
Unwrap(o) == o[1]

\* Option::unwrap_or
unwrap_or(o, d) == IF IsSome(o) THEN Unwrap(o) ELSE d

----------------------------------------------------------------------------
(* Value domains *)

Applicabilities == {"Always", "MaybeIncorrect"}

\* ActionCategory::Other(Cow::Borrowed(SUPPRESSION_ACTION_CATEGORY))
SuppressionCategory == "Other(quickfix.suppressRule)"

\* the categories a rule's own fix may declare: every ActionCategory, the
\* Other(..) that the suppression action is tagged with included
RuleCategories == {"QuickFix", "Refactor", "Source", "Other(custom)", SuppressionCategory}

\* (<R::Group as RuleGroup>::NAME, R::METADATA.name)
RuleName == <<"a11y", "noAriaHiddenOnFocusable">>

\* The text of the tree snapshot every mutation batch of the model is against.
RootText == <<"a", "b", "c">>

\* Two structural edits against RootText: replace [0,1) by "x", remove [2,3).
ChangeReplace == [start |-> 0, end |-> 1, text |-> <<"x">>]
ChangeRemove == [start |-> 2, end |-> 3, text |-> <<>>]

\* Mutation batches: a sequence of accumulated changes (possibly none).
MutationBatches ==
    {<<>>, <<ChangeReplace>>, <<ChangeRemove>>, <<ChangeReplace, ChangeRemove>>}

FixMessage == "Remove the aria-hidden attribute from the element."
SuppressMessage == "Suppress rule a11y/noAriaHiddenOnFocusable"

\* RuleAction values the fix hook of a rule R may return (RuleSignal is generic
\* over R): among them the one removal NoAriaHiddenOnFocusable::action returns
RuleActions ==
    [category : RuleCategories,
     applicability : Applicabilities,
     message : {FixMessage},
     mutation : {<<>>, <<ChangeReplace>>, <<ChangeRemove>>}]

\* SuppressAction values the suppression capability may produce
SuppressActions == [mutation : {<<ChangeRemove>>}, message : {SuppressMessage}]

RuleDiagnostics == {[category |-> "lint/a11y/noAriaHiddenOnFocusable", span |-> <<0, 3>>]}

TextRanges == {<<0, 3>>}

OptionOf(S) == {None} \cup {Some(x) : x \in S}

FixKinds == {"None", "Safe", "Unsafe"}

\* What the hooks of rule R yield for the signal's query result and match state.
RuleHooks ==
    [diagnostic : OptionOf(RuleDiagnostics),
     action : OptionOf(RuleActions),
     text_range : OptionOf(TextRanges),
     transform : OptionOf({<<ChangeReplace>>})]

RuleSignals ==
    [rule : RuleHooks,
     services : BOOLEAN,
     suppression_action : OptionOf(SuppressActions),
     options : [fix_kind : OptionOf(FixKinds)]]

----------------------------------------------------------------------------
(* Collaborators of RuleSignal *)

\* AnalyzerOptions::rule_fix_kind::<R>()
rule_fix_kind(options) == options.fix_kind

\* RuleContext::new(..).ok(): fails when a required service is absent
RuleContext_new(self) ==
    IF self.services
    THEN Some([rule |-> self.rule])
    ELSE None

\* Rule hooks: pure functions of the context and the match state
R_diagnostic(ctx) == ctx.rule.diagnostic
R_action(ctx) == ctx.rule.action
R_text_range(ctx) == ctx.rule.text_range
R_transform(ctx) == ctx.rule.transform

\* R::suppress(ctx, text_range, suppression_action): asks the capability
R_suppress(ctx, text_range, suppression_action) == suppression_action

\* RuleAction::applicability()
RuleAction_applicability(action) == action.applicability

\* AnalyzerDiagnostic::from(RuleDiagnostic)
AnalyzerDiagnostic_from(d) == [kind |-> "Rule", diagnostic |-> d]

\* AnalyzerActionIter::new / AnalyzerTransformationIter::new: collect into a Vec
AnalyzerActionIter_new(actions) == actions
AnalyzerTransformationIter_new(transformations) == transformations

----------------------------------------------------------------------------
(* RuleSignal: the three accessors.  Each returns [ret, trace]: the value  *)
(* handed back and the collaborators invoked, in order.                    *)

\* signals.rs 380-391 and 426-437: the rule options are read, then the
\* arguments of RuleContext::new (preferred_quote, jsx_runtime), then the call
ContextTrace ==
    <<"options.rule_options", "options.preferred_quote", "options.jsx_runtime",
      "RuleContext::new">>

\* signals.rs 348-360: diagnostic() reads preferred_quote before the rule options
DiagnosticContextTrace ==
    <<"options.preferred_quote", "options.rule_options", "options.jsx_runtime",
      "RuleContext::new">>

\* a diagnostic() that reports nothing for a rule whose fix is disabled
RuleSignal_diagnostic_PolicyGated(self) ==
    LET ctx == RuleContext_new(self) IN
    IF rule_fix_kind(self.options) = Some("None")
    THEN [ret |-> None, trace |-> <<"options.globals", "rule_fix_kind">>]
    ELSE IF IsSome(ctx)
    THEN LET d == R_diagnostic(Unwrap(ctx)) IN
         [ret |-> IF IsSome(d) THEN Some(AnalyzerDiagnostic_from(Unwrap(d))) ELSE None,
          trace |-> <<"options.globals", "rule_fix_kind">> \o DiagnosticContextTrace
                    \o <<"R::diagnostic">>]
    ELSE [ret |-> None,
          trace |-> <<"options.globals", "rule_fix_kind">> \o DiagnosticContextTrace]

\* signals.rs 346-363
RuleSignal_diagnostic(self) ==
    LET ctx == RuleContext_new(self) IN
    IF IsSome(ctx)
    THEN LET d == R_diagnostic(Unwrap(ctx)) IN
         [ret |-> IF IsSome(d) THEN Some(AnalyzerDiagnostic_from(Unwrap(d))) ELSE None,
          trace |-> <<"options.globals">> \o DiagnosticContextTrace \o <<"R::diagnostic">>]
    ELSE [ret |-> None, trace |-> <<"options.globals">> \o DiagnosticContextTrace]

\* a policy lookup that forgets the early return of FixKind::None
ConfiguredApplicability_NoneIgnored(fix_kind) ==
    IF IsSome(fix_kind) /\ Unwrap(fix_kind) = "Safe"
    THEN [disabled |-> FALSE, applicability |-> Some("Always")]
    ELSE IF IsSome(fix_kind) /\ Unwrap(fix_kind) = "Unsafe"
    THEN [disabled |-> FALSE, applicability |-> Some("MaybeIncorrect")]
    ELSE [disabled |-> FALSE, applicability |-> None]

\* signals.rs 368-379: the fix-kind policy.  disabled stands for the early
\* return of FixKind::None; applicability is configured_applicability.
ConfiguredApplicability(fix_kind) ==
    IF IsSome(fix_kind)
    THEN CASE Unwrap(fix_kind) = "None" -> [disabled |-> TRUE, applicability |-> None]
           [] Unwrap(fix_kind) = "Safe" -> [disabled |-> FALSE, applicability |-> Some("Always")]
           [] Unwrap(fix_kind) = "Unsafe" ->
                  [disabled |-> FALSE, applicability |-> Some("MaybeIncorrect")]
    ELSE [disabled |-> FALSE, applicability |-> None]

\* a fix action that keeps the rule's declared applicability whatever the policy
FixAnalyzerAction_Declared(action, configured_applicability) ==
    [rule_name |-> Some(RuleName),
     applicability |-> RuleAction_applicability(action),
     category |-> action.category,
     mutation |-> action.mutation,
     message |-> action.message]

\* a fix action that falls back to always-safe instead of the declared applicability
FixAnalyzerAction_DefaultAlways(action, configured_applicability) ==
    [rule_name |-> Some(RuleName),
     applicability |-> unwrap_or(configured_applicability, "Always"),
     category |-> action.category,
     mutation |-> action.mutation,
     message |-> action.message]

\* a fix action that an override also turns into a quick fix
FixAnalyzerAction_OverrideRecategorises(action, configured_applicability) ==
    [rule_name |-> Some(RuleName),
     applicability |-> unwrap_or(configured_applicability, RuleAction_applicability(action)),
     category |-> IF IsSome(configured_applicability) THEN "QuickFix" ELSE action.category,
     mutation |-> action.mutation,
     message |-> action.message]

\* signals.rs 395-401: the fix action built from the rule's own action
FixAnalyzerAction(action, configured_applicability) ==
    [rule_name |-> Some(RuleName),
     applicability |-> unwrap_or(configured_applicability, RuleAction_applicability(action)),
     category |-> action.category,
     mutation |-> action.mutation,
     message |-> action.message]

\* a suppression action that takes the configured override like the fix does
SuppressionAnalyzerAction_Overridden(suppression_action, configured_applicability) ==
    [rule_name |-> Some(RuleName),
     category |-> SuppressionCategory,
     applicability |-> unwrap_or(configured_applicability, "Always"),
     mutation |-> suppression_action.mutation,
     message |-> suppression_action.message]

\* a suppression action that carries no rule identity
SuppressionAnalyzerAction_Anonymous(suppression_action, configured_applicability) ==
    [rule_name |-> None,
     category |-> SuppressionCategory,
     applicability |-> "Always",
     mutation |-> suppression_action.mutation,
     message |-> suppression_action.message]

\* signals.rs 407-413: the suppression action built from the capability's result
SuppressionAnalyzerAction(suppression_action, configured_applicability) ==
    [rule_name |-> Some(RuleName),
     category |-> SuppressionCategory,
     applicability |-> "Always",
     mutation |-> suppression_action.mutation,
     message |-> suppression_action.message]

\* a body that pushes the suppression action before the fix action
CollectActions_SuppressionFirst(self, ctx, configured_applicability) ==
    LET action == R_action(ctx)
        pushed_fix == IF IsSome(action)
                      THEN <<FixAnalyzerAction(Unwrap(action), configured_applicability)>>
                      ELSE <<>>
        text_range == R_text_range(ctx)
        suppression == IF IsSome(text_range)
                       THEN R_suppress(ctx, Unwrap(text_range), self.suppression_action)
                       ELSE None
        pushed_suppression ==
            IF IsSome(suppression)
            THEN <<SuppressionAnalyzerAction(Unwrap(suppression), configured_applicability)>>
            ELSE <<>>
    IN  [ret |-> AnalyzerActionIter_new(pushed_suppression \o pushed_fix),
         trace |-> <<"R::action">>
                   \o (IF IsSome(action) THEN <<"unwrap_or">> ELSE <<>>)
                   \o <<"R::text_range">>
                   \o (IF IsSome(text_range)
                       THEN <<"R::suppress", "SuppressionAction">>
                       ELSE <<>>)]

\* a body that asks the capability for a suppression whatever the anchor range
CollectActions_EagerSuppress(self, ctx, configured_applicability) ==
    LET action == R_action(ctx)
        pushed_fix == IF IsSome(action)
                      THEN <<FixAnalyzerAction(Unwrap(action), configured_applicability)>>
                      ELSE <<>>
        text_range == R_text_range(ctx)
        suppression == R_suppress(ctx, unwrap_or(text_range, <<0, 0>>), self.suppression_action)
        pushed_suppression ==
            IF IsSome(text_range) /\ IsSome(suppression)
            THEN <<SuppressionAnalyzerAction(Unwrap(suppression), configured_applicability)>>
            ELSE <<>>
    IN  [ret |-> AnalyzerActionIter_new(pushed_fix \o pushed_suppression),
         trace |-> <<"R::action">>
                   \o (IF IsSome(action) THEN <<"unwrap_or">> ELSE <<>>)
                   \o <<"R::text_range", "R::suppress", "SuppressionAction">>]

\* signals.rs 393-418: the body run once the context exists.  In the trace,
\* "unwrap_or" is the override taking effect on the action the fix hook returned.
CollectActions(self, ctx, configured_applicability) ==
    LET action == R_action(ctx)
        pushed_fix == IF IsSome(action)
                      THEN <<FixAnalyzerAction(Unwrap(action), configured_applicability)>>
                      ELSE <<>>
        text_range == R_text_range(ctx)
        suppression == IF IsSome(text_range)
                       THEN R_suppress(ctx, Unwrap(text_range), self.suppression_action)
                       ELSE None
        pushed_suppression ==
            IF IsSome(suppression)
            THEN <<SuppressionAnalyzerAction(Unwrap(suppression), configured_applicability)>>
            ELSE <<>>
    IN  [ret |-> AnalyzerActionIter_new(pushed_fix \o pushed_suppression),
         trace |-> <<"R::action">>
                   \o (IF IsSome(action) THEN <<"unwrap_or">> ELSE <<>>)
                   \o <<"R::text_range">>
                   \o (IF IsSome(text_range)
                       THEN <<"R::suppress", "SuppressionAction">>
                       ELSE <<>>)]

\* an actions() that builds the context before it looks at the fix-kind policy
RuleSignal_actions_ContextFirst(self) ==
    LET ctx == RuleContext_new(self)
        policy == ConfiguredApplicability(rule_fix_kind(self.options))
    IN  IF policy.disabled
        THEN [ret |-> AnalyzerActionIter_new(<<>>),
              trace |-> <<"options.globals">> \o ContextTrace \o <<"rule_fix_kind">>]
        ELSE IF IsSome(ctx)
        THEN LET body == CollectActions(self, Unwrap(ctx), policy.applicability) IN
             [ret |-> body.ret,
              trace |-> <<"options.globals">> \o ContextTrace \o <<"rule_fix_kind">>
                        \o body.trace]
        ELSE [ret |-> AnalyzerActionIter_new(<<>>),
              trace |-> <<"options.globals">> \o ContextTrace \o <<"rule_fix_kind">>]

\* signals.rs 365-422
RuleSignal_actions(self) ==
    LET policy == ConfiguredApplicability(rule_fix_kind(self.options)) IN
    IF policy.disabled
    THEN [ret |-> AnalyzerActionIter_new(<<>>),
          trace |-> <<"options.globals", "rule_fix_kind">>]
    ELSE LET ctx == RuleContext_new(self) IN
         IF IsSome(ctx)
         THEN LET body == CollectActions(self, Unwrap(ctx), policy.applicability) IN
              [ret |-> body.ret,
               trace |-> <<"options.globals", "rule_fix_kind">> \o ContextTrace
                         \o body.trace]
         ELSE [ret |-> AnalyzerActionIter_new(<<>>),
               trace |-> <<"options.globals", "rule_fix_kind">> \o ContextTrace]

\* a transformations() that runs the transform hook although no context was built
RuleSignal_transformations_Unchecked(self) ==
    LET mutation == self.rule.transform IN
    [ret |-> AnalyzerTransformationIter_new(
                 IF IsSome(mutation) THEN <<[mutation |-> Unwrap(mutation)]>> ELSE <<>>),
     trace |-> <<"options.globals">> \o ContextTrace \o <<"R::transform">>]

\* a transformations() that pushes the transformation twice
RuleSignal_transformations_Twice(self) ==
    LET ctx == RuleContext_new(self) IN
    IF IsSome(ctx)
    THEN LET mutation == R_transform(Unwrap(ctx)) IN
         [ret |-> AnalyzerTransformationIter_new(
                      IF IsSome(mutation)
                      THEN <<[mutation |-> Unwrap(mutation)], [mutation |-> Unwrap(mutation)]>>
                      ELSE <<>>),
          trace |-> <<"options.globals">> \o ContextTrace \o <<"R::transform">>]
    ELSE [ret |-> AnalyzerTransformationIter_new(<<>>),
          trace |-> <<"options.globals">> \o ContextTrace]

\* signals.rs 424-450
RuleSignal_transformations(self) ==
    LET ctx == RuleContext_new(self) IN
    IF IsSome(ctx)
    THEN LET mutation == R_transform(Unwrap(ctx)) IN
         [ret |-> AnalyzerTransformationIter_new(
                      IF IsSome(mutation)
                      THEN <<[mutation |-> Unwrap(mutation)]>>
                      ELSE <<>>),
          trace |-> <<"options.globals">> \o ContextTrace \o <<"R::transform">>]
    ELSE [ret |-> AnalyzerTransformationIter_new(<<>>),
          trace |-> <<"options.globals">> \o ContextTrace]

----------------------------------------------------------------------------
(* The RuleSignal state machine: a signal is built by RuleSignal::new and   *)
(* its accessors are then called any number of times, in any order.         *)

Accessors == {"diagnostic", "actions", "transformations"}

\* How many times each accessor is called on one signal.
MaxCalls == 2

NoCall == [op |-> "none", ret |-> <<>>, trace |-> <<>>]
NoDiagnosticSignal == [diagnostic |-> "none", action |-> None, transformation |-> None]
NoIter == [kind |-> "none", items |-> <<>>]
NoHist == [source |-> <<>>, consumed |-> <<>>, exhausted |-> FALSE]
NoNode == [name |-> None, aria_hidden |-> None, tabIndex |-> None, href |-> FALSE]
NotRun == [ran |-> FALSE, signals |-> None]
NoExecution == [ran |-> FALSE]

\* RuleSignal::new (signals.rs 321-339)
Init ==
    /\ signal \in RuleSignals
    /\ dsignal = NoDiagnosticSignal
    /\ last = NoCall
    /\ returned = [a \in Accessors |-> <<>>]
    /\ iter = NoIter
    /\ yielded = None
    /\ taken = None
    /\ hist = NoHist
    /\ node = NoNode
    /\ found = NotRun
    /\ exec = NoExecution

\* Record a call of accessor op that came back with r.
Record(op, r) ==
    /\ Len(returned[op]) < MaxCalls
    /\ last' = [op |-> op, ret |-> r.ret, trace |-> r.trace]
    /\ returned' = [returned EXCEPT ![op] = Append(@, r.ret)]

\* &self: an accessor leaves the signal as it was.
CallDiagnostic ==
    /\ Record("diagnostic", RuleSignal_diagnostic(signal))
    /\ UNCHANGED <<signal, dsignal, iter, yielded, taken, hist, node, found, exec>>

CallActions ==
    /\ Record("actions", RuleSignal_actions(signal))
    /\ UNCHANGED <<signal, dsignal, iter, yielded, taken, hist, node, found, exec>>

CallTransformations ==
    /\ Record("transformations", RuleSignal_transformations(signal))
    /\ UNCHANGED <<signal, dsignal, iter, yielded, taken, hist, node, found, exec>>

Next == CallDiagnostic \/ CallActions \/ CallTransformations

Spec == Init /\ [][Next]_vars

----------------------------------------------------------------------------
(* DiagnosticSignal: a signal built from a diagnostic factory, with an      *)
(* optional fix factory.  A closure is modelled by what it returns when     *)
(* invoked; name tells the closure `|| None` of new from an attached one.   *)

\* AnalyzerAction values (signals.rs 108-114) a factory or an iterator may hold
AnalyzerActions ==
    [rule_name : OptionOf({RuleName}),
     category : {"QuickFix", SuppressionCategory},
     applicability : Applicabilities,
     message : {FixMessage},
     mutation : MutationBatches]

\* the values T a diagnostic factory returns
FactoryDiagnostics == {"parse error", "unused variable"}

\* `|| None` (signals.rs 51-52)
DefaultFactory == [name |-> "|| None", yields |-> None]

\* the fix factories B handed to with_action
ActionFactories == [name : {"factory"}, yields : OptionOf(AnalyzerActions)]

\* invoking a closure: (self.action)()
Invoke(closure) == closure.yields

\* Error::from(diag)
Error_from(diag) == [source |-> diag]

\* AnalyzerDiagnostic::from_error(error)
AnalyzerDiagnostic_from_error(error) == [kind |-> "Raw", diagnostic |-> error]

\* signals.rs 48-55
DiagnosticSignal_new(factory) ==
    [diagnostic |-> factory, action |-> DefaultFactory, transformation |-> DefaultFactory]

\* a with_action that also installs the fix factory's edit as the transformation
DiagnosticSignal_with_action_AlsoTransforms(self, factory) ==
    [diagnostic |-> self.diagnostic,
     action |-> factory,
     transformation |->
         [name |-> "factory",
          yields |-> IF IsSome(Invoke(factory))
                     THEN Some([mutation |-> Unwrap(Invoke(factory)).mutation])
                     ELSE None]]

\* signals.rs 59-69
DiagnosticSignal_with_action(self, factory) ==
    [diagnostic |-> self.diagnostic,
     action |-> factory,
     transformation |-> self.transformation]

\* a diagnostic() that reports nothing unless the fix factory yields an action
DiagnosticSignal_diagnostic_OnlyWithFix(self) ==
    IF IsSome(Invoke(self.action))
    THEN [ret |-> Some(AnalyzerDiagnostic_from_error(Error_from(self.diagnostic))),
          trace |-> <<"diagnostic factory">>]
    ELSE [ret |-> None, trace |-> <<>>]

\* signals.rs 79-83
DiagnosticSignal_diagnostic(self) ==
    LET diag == self.diagnostic
        error == Error_from(diag)
    IN  [ret |-> Some(AnalyzerDiagnostic_from_error(error)),
         trace |-> <<"diagnostic factory">>]

\* an actions() that offers a suppression of its own after the factory's action
DiagnosticSignal_actions_WithSuppression(self) ==
    LET action == Invoke(self.action) IN
    [ret |-> IF IsSome(action)
             THEN AnalyzerActionIter_new(
                      <<Unwrap(action),
                        [Unwrap(action) EXCEPT !.category = SuppressionCategory,
                                               !.applicability = "Always"]>>)
             ELSE AnalyzerActionIter_new(<<>>),
     trace |-> <<"action factory">>]

\* signals.rs 85-91
DiagnosticSignal_actions(self) ==
    LET action == Invoke(self.action) IN
    [ret |-> IF IsSome(action)
             THEN AnalyzerActionIter_new(<<Unwrap(action)>>)
             ELSE AnalyzerActionIter_new(<<>>),
     trace |-> <<"action factory">>]

\* signals.rs 93-99
DiagnosticSignal_transformations(self) ==
    LET transformation == Invoke(self.transformation) IN
    [ret |-> IF IsSome(transformation)
             THEN AnalyzerTransformationIter_new(<<Unwrap(transformation)>>)
             ELSE AnalyzerTransformationIter_new(<<>>),
     trace |-> <<"transformation factory">>]

\* DiagnosticSignal::new(factory)
InitDiagnosticSignal ==
    /\ dsignal \in {DiagnosticSignal_new(f) : f \in FactoryDiagnostics}
    /\ signal = CHOOSE sig \in RuleSignals : TRUE
    /\ last = NoCall
    /\ returned = [a \in Accessors |-> <<>>]
    /\ iter = NoIter
    /\ yielded = None
    /\ taken = None
    /\ hist = NoHist
    /\ node = NoNode
    /\ found = NotRun
    /\ exec = NoExecution

\* signal.with_action(factory): consumes the signal and gives a new one, on
\* which no accessor has been called yet
WithAction ==
    /\ \E factory \in ActionFactories :
          dsignal' = DiagnosticSignal_with_action(dsignal, factory)
    /\ last' = NoCall
    /\ UNCHANGED <<signal, returned, iter, yielded, taken, hist, node, found, exec>>

DSCall(op, r) ==
    /\ last' = [op |-> op, ret |-> r.ret, trace |-> r.trace]
    /\ UNCHANGED <<signal, dsignal, returned, iter, yielded, taken, hist, node, found, exec>>

DSCallDiagnostic == DSCall("diagnostic", DiagnosticSignal_diagnostic(dsignal))

DSCallActions == DSCall("actions", DiagnosticSignal_actions(dsignal))

DSCallTransformations == DSCall("transformations", DiagnosticSignal_transformations(dsignal))

NextDiagnosticSignal ==
    WithAction \/ DSCallDiagnostic \/ DSCallActions \/ DSCallTransformations

SpecDiagnosticSignal == InitDiagnosticSignal /\ [][NextDiagnosticSignal]_vars

----------------------------------------------------------------------------
(* The action iterator and its two views.  The iterator owns the actions    *)
(* not yet yielded; a view takes them over and converts each on next().     *)

\* The longest action sequence handed to AnalyzerActionIter::new.
MaxActions == 2

SeqsUpTo(S, n) == UNION {[1..k -> S] : k \in 0..n}

Min(S) == CHOOSE x \in S : \A y \in S : x <= y
Max(S) == CHOOSE x \in S : \A y \in S : x >= y

\* The text that replaces [from, to) of RootText once the changes are applied.
RECURSIVE NewText(_, _, _)
NewText(mutation, from, to) ==
    IF from >= to
    THEN <<>>
    ELSE LET at == {i \in 1..Len(mutation) : mutation[i].start = from} IN
         IF at # {}
         THEN LET c == mutation[Min(at)] IN c.text \o NewText(mutation, c.end, to)
         ELSE <<RootText[from + 1]>> \o NewText(mutation, from + 1, to)

\* BatchMutation::as_text_range_and_edit: the range covering every change and
\* the text replacing it; nothing when the batch holds no change.
as_text_range_and_edit(mutation) ==
    IF mutation = <<>>
    THEN None
    ELSE LET from == Min({mutation[i].start : i \in 1..Len(mutation)})
             to == Max({mutation[i].end : i \in 1..Len(mutation)})
         IN  Some(<<<<from, to>>, NewText(mutation, from, to)>>)

\* (TextRange::default(), TextEdit::default())
DefaultRangeAndEdit == <<<<0, 0>>, <<>>>>

\* what an unwrap() would leave behind: the conversion panics on None
PanicRangeAndEdit == <<<<0, 0>>, <<"panicked">>>>

unwrap_or_panic(o) == IF IsSome(o) THEN Unwrap(o) ELSE PanicRangeAndEdit

\* Option::unwrap_or_default (signals.rs 136, 147)
unwrap_or_default(o) == IF IsSome(o) THEN Unwrap(o) ELSE DefaultRangeAndEdit

\* signals.rs 134-143
From_CodeSuggestionAdvice(action) ==
    LET pair == unwrap_or_default(as_text_range_and_edit(action.mutation))
        suggestion == pair[2]
    IN  [applicability |-> action.applicability,
         msg |-> action.message,
         suggestion |-> suggestion]

\* a flat item that loses the action's rule identity
From_CodeSuggestionItem_NoIdentity(action) ==
    LET pair == unwrap_or_default(as_text_range_and_edit(action.mutation)) IN
    [rule_name |-> None,
     category |-> action.category,
     suggestion |-> [span |-> pair[1],
                     applicability |-> action.applicability,
                     msg |-> action.message,
                     suggestion |-> pair[2],
                     labels |-> <<>>]]

\* signals.rs 145-161
From_CodeSuggestionItem(action) ==
    LET pair == unwrap_or_default(as_text_range_and_edit(action.mutation))
        range == pair[1]
        suggestion == pair[2]
    IN  [rule_name |-> action.rule_name,
         category |-> action.category,
         suggestion |-> [span |-> range,
                         applicability |-> action.applicability,
                         msg |-> action.message,
                         suggestion |-> suggestion,
                         labels |-> <<>>]]

\* a next() that hands out the front item without removing it
IntoIter_next_Peek(items) ==
    IF items = <<>>
    THEN [item |-> None, rest |-> <<>>]
    ELSE [item |-> Some(Head(items)), rest |-> items]

\* std::vec::IntoIter::next: the front item, if any, and the rest
IntoIter_next(items) ==
    IF items = <<>>
    THEN [item |-> None, rest |-> <<>>]
    ELSE [item |-> Some(Head(items)), rest |-> Tail(items)]

\* ExactSizeIterator::len of the four iterators: self.iter.len()
Iter_len(it) == Len(it.items)

\* AnalyzerTransformation values (signals.rs 300-303)
AnalyzerTransformations == [mutation : MutationBatches]

\* hist once next() has come back with n
Advanced(n) ==
    [source |-> hist.source,
     consumed |-> IF IsSome(n.item) THEN Append(hist.consumed, Unwrap(n.item))
                  ELSE hist.consumed,
     exhausted |-> hist.exhausted \/ n.item = None]

\* AnalyzerActionIter::new(actions) / AnalyzerTransformationIter::new(transformations)
InitViews ==
    /\ \/ \E actions \in SeqsUpTo(AnalyzerActions, MaxActions) :
             /\ iter = [kind |-> "actions", items |-> AnalyzerActionIter_new(actions)]
             /\ hist = [source |-> actions, consumed |-> <<>>, exhausted |-> FALSE]
       \/ \E transformations \in SeqsUpTo(AnalyzerTransformations, MaxActions) :
             /\ iter = [kind |-> "transformations",
                        items |-> AnalyzerTransformationIter_new(transformations)]
             /\ hist = [source |-> transformations, consumed |-> <<>>, exhausted |-> FALSE]
    /\ yielded = None
    /\ taken = None
    /\ signal = CHOOSE sig \in RuleSignals : TRUE
    /\ dsignal = NoDiagnosticSignal
    /\ last = NoCall
    /\ returned = [a \in Accessors |-> <<>>]
    /\ node = NoNode
    /\ found = NotRun
    /\ exec = NoExecution

\* AnalyzerActionIter::next (signals.rs 181-183)
ActionIterNext ==
    /\ iter.kind = "actions"
    /\ LET n == IntoIter_next(iter.items) IN
          /\ iter' = [iter EXCEPT !.items = n.rest]
          /\ taken' = n.item
          /\ yielded' = n.item
          /\ hist' = Advanced(n)
    /\ UNCHANGED <<signal, dsignal, last, returned, node, found, exec>>

\* AnalyzerTransformationIter::next (signals.rs 288-290)
TransformationIterNext ==
    /\ iter.kind = "transformations"
    /\ LET n == IntoIter_next(iter.items) IN
          /\ iter' = [iter EXCEPT !.items = n.rest]
          /\ taken' = n.item
          /\ yielded' = n.item
          /\ hist' = Advanced(n)
    /\ UNCHANGED <<signal, dsignal, last, returned, node, found, exec>>

\* AnalyzerActionIter::into_code_suggestion_advices (signals.rs 244-248): the
\* view is a new iterator over the remaining actions; nothing was taken from it
IntoCodeSuggestionAdvices ==
    /\ iter.kind = "actions"
    /\ iter' = [kind |-> "advices", items |-> iter.items]
    /\ yielded' = None
    /\ taken' = None
    /\ UNCHANGED <<signal, dsignal, last, returned, hist, node, found, exec>>

\* AnalyzerActionIter::into_code_action_iter (signals.rs 251-255)
IntoCodeActionIter ==
    /\ iter.kind = "actions"
    /\ iter' = [kind |-> "code_actions", items |-> iter.items]
    /\ yielded' = None
    /\ taken' = None
    /\ UNCHANGED <<signal, dsignal, last, returned, hist, node, found, exec>>

\* CodeSuggestionAdviceIter::next (signals.rs 201-204)
AdviceIterNext ==
    /\ iter.kind = "advices"
    /\ LET n == IntoIter_next(iter.items) IN
          /\ iter' = [iter EXCEPT !.items = n.rest]
          /\ taken' = n.item
          /\ yielded' = IF IsSome(n.item)
                        THEN Some(From_CodeSuggestionAdvice(Unwrap(n.item)))
                        ELSE None
          /\ hist' = Advanced(n)
    /\ UNCHANGED <<signal, dsignal, last, returned, node, found, exec>>

\* CodeActionIter::next (signals.rs 228-231)
CodeActionIterNext ==
    /\ iter.kind = "code_actions"
    /\ LET n == IntoIter_next(iter.items) IN
          /\ iter' = [iter EXCEPT !.items = n.rest]
          /\ taken' = n.item
          /\ yielded' = IF IsSome(n.item)
                        THEN Some(From_CodeSuggestionItem(Unwrap(n.item)))
                        ELSE None
          /\ hist' = Advanced(n)
    /\ UNCHANGED <<signal, dsignal, last, returned, node, found, exec>>

NextViews ==
    \/ ActionIterNext
    \/ TransformationIterNext
    \/ IntoCodeSuggestionAdvices
    \/ IntoCodeActionIter
    \/ AdviceIterNext
    \/ CodeActionIterNext

SpecViews == InitViews /\ [][NextViews]_vars

----------------------------------------------------------------------------
(* NoAriaHiddenOnFocusable::run on one JSX element.  A text is the sequence *)
(* of its characters, so that str::parse::<i32> is computed, not assumed.   *)

I32Max == 2147483647

DigitValue(c) ==
    CASE c = "0" -> 0 [] c = "1" -> 1 [] c = "2" -> 2 [] c = "3" -> 3 [] c = "4" -> 4
      [] c = "5" -> 5 [] c = "6" -> 6 [] c = "7" -> 7 [] c = "8" -> 8 [] c = "9" -> 9
      [] OTHER -> -1

\* i32::from_str: the digits of text from position i on, added to acc with the
\* sign given; None on a character that is no digit and on overflow.
RECURSIVE ParseDigits(_, _, _, _)
ParseDigits(text, i, acc, negative) ==
    IF i > Len(text)
    THEN Some(acc)
    ELSE LET d == DigitValue(text[i])
             edge == I32Max \div 10
             fits == IF negative
                     THEN acc > -edge \/ (acc = -edge /\ d <= (I32Max % 10) + 1)
                     ELSE acc < edge \/ (acc = edge /\ d <= I32Max % 10)
         IN  IF d < 0 \/ ~fits
             THEN None
             ELSE ParseDigits(text, i + 1,
                              IF negative THEN acc * 10 - d ELSE acc * 10 + d,
                              negative)

\* str::parse::<i32>(): an optional sign and at least one digit
parse_i32(text) ==
    IF text = <<>>
    THEN None
    ELSE IF text[1] \in {"+", "-"}
    THEN IF Len(text) = 1 THEN None ELSE ParseDigits(text, 2, 0, text[1] = "-")
    ELSE ParseDigits(text, 1, 0, FALSE)

\* the texts a tabIndex value is written with
TabIndexTexts ==
    {<<"0">>, <<"1">>, <<"-", "1">>, <<"+", "1">>, <<"-", "0">>, <<"0", "7">>,
     <<>>, <<"-">>, <<" ", "1">>, <<"1", " ">>, <<"-", " ", "1">>, <<"1", ".", "0">>,
     <<"a">>,
     <<"2", "1", "4", "7", "4", "8", "3", "6", "4", "7">>,
     <<"2", "1", "4", "7", "4", "8", "3", "6", "4", "8">>,
     <<"-", "2", "1", "4", "7", "4", "8", "3", "6", "4", "8">>,
     <<"-", "2", "1", "4", "7", "4", "8", "3", "6", "4", "9">>}

\* the expressions of tabIndex={...}: the three AnyNumberLikeExpression kinds
\* (a unary expression is or is not a signed numeric literal) and any other
Expressions ==
    [kind : {"JsStringLiteralExpression", "JsNumberLiteralExpression"},
     signed_numeric : {FALSE},
     text : TabIndexTexts]
    \cup [kind : {"JsUnaryExpression"},
          signed_numeric : BOOLEAN,
          text : {<<"-", "1">>, <<"+", "1">>, <<"-", " ", "1">>, <<"-", "0">>}]
    \cup [kind : {"JsIdentifierExpression"}, signed_numeric : {FALSE}, text : {<<"a">>}]

\* AnyJsxAttributeValue
AttributeValues ==
    [kind : {"JsxString"}, text : TabIndexTexts, expression : {None}]
    \cup [kind : {"AnyJsxTag"}, text : {<<"<", "b", "/", ">">>}, expression : {None}]
    \cup [kind : {"JsxExpressionAttributeValue"}, text : {<<>>},
          expression : OptionOf(Expressions)]

\* the name of the element: missing, a JsxName, or another AnyJsxElementName
ElementNames ==
    {None}
    \cup {Some([kind |-> "JsxName", text |-> t]) : t \in {"div", "a", "button"}}
    \cup {Some([kind |-> "JsxReferenceIdentifier", text |-> "Button"]),
          Some([kind |-> "JsxMemberName", text |-> "Foo.Bar"])}

\* AnyJsxElement: its name and the attributes the rule looks at.  aria_hidden
\* holds the attribute's static value, if it has one; tabIndex holds the
\* attribute's initializer value, if it has one.
JsxElements ==
    [name : ElementNames,
     aria_hidden : OptionOf([static_value : OptionOf({"true", "false"})]),
     tabIndex : OptionOf([value : OptionOf(AttributeValues)]),
     href : BOOLEAN]

Unit == "()"

\* AnyJsxElement::is_element: the name is a JsxName
is_element(n) == IsSome(n.name) /\ Unwrap(n.name).kind = "JsxName"

\* AnyNumberLikeExpression::cast
AnyNumberLikeExpression_cast(expression) ==
    IF expression.kind \in
           {"JsStringLiteralExpression", "JsNumberLiteralExpression", "JsUnaryExpression"}
    THEN Some(expression)
    ELSE None

\* AnyNumberLikeExpression::value (no_aria_hidden_on_focusable.rs 78-93)
AnyNumberLikeExpression_value(expression) ==
    CASE expression.kind = "JsStringLiteralExpression" -> Some(expression.text)
      [] expression.kind = "JsNumberLiteralExpression" -> Some(expression.text)
      [] expression.kind = "JsUnaryExpression" ->
             IF expression.signed_numeric THEN Some(expression.text) ELSE None

\* a check that takes only positive tab indexes for focusable
then_some_Positive(num) == IF num > 0 THEN Some(Unit) ELSE None

\* (num >= 0).then_some(()) (no_aria_hidden_on_focusable.rs 144, 154, 164)
then_some(num) == IF num >= 0 THEN Some(Unit) ELSE None

\* no_aria_hidden_on_focusable.rs 140-167: the match on the tabIndex value.
\* returned tells a `return` of run from falling out of the match.
MatchTabIndex(tabindex_val) ==
    LET Parsed(value) ==
            IF IsSome(value)
            THEN [returned |-> TRUE, signals |-> then_some(Unwrap(value))]
            ELSE [returned |-> FALSE, signals |-> None]
        Return(signals) == [returned |-> TRUE, signals |-> signals]
    IN  CASE tabindex_val.kind = "AnyJsxTag" -> Parsed(parse_i32(tabindex_val.text))
          [] tabindex_val.kind = "JsxString" -> Parsed(parse_i32(tabindex_val.text))
          [] tabindex_val.kind = "JsxExpressionAttributeValue" ->
                 IF tabindex_val.expression = None
                 THEN Return(None)
                 ELSE LET cast == AnyNumberLikeExpression_cast(Unwrap(tabindex_val.expression))
                      IN  IF cast = None
                          THEN Return(None)
                          ELSE LET value == AnyNumberLikeExpression_value(Unwrap(cast)) IN
                               IF value = None
                               THEN Return(None)
                               ELSE Parsed(parse_i32(Unwrap(value)))

\* NoAriaHiddenOnFocusable::run (no_aria_hidden_on_focusable.rs 102-171)
run(n) ==
    IF n.name = None \/ Unwrap(n.name).kind # "JsxName"
    THEN None
    ELSE IF ~is_element(n)
    THEN None
    ELSE IF n.aria_hidden = None
    THEN None
    ELSE IF Unwrap(n.aria_hidden).static_value = None
    THEN None
    ELSE IF Unwrap(Unwrap(n.aria_hidden).static_value) = "false"
    THEN None
    ELSE IF n.tabIndex = None
    THEN None
    ELSE IF Unwrap(n.tabIndex).value = None
    THEN None
    ELSE MatchTabIndex(Unwrap(Unwrap(n.tabIndex).value)).signals

\* NoAriaHiddenOnFocusable::action (no_aria_hidden_on_focusable.rs 189-200): the
\* removal of the aria-hidden attribute, as a quick fix with the applicability
\* of the rule's metadata (fix_kind: FixKind::Unsafe, line 58)
NoAriaHiddenOnFocusable_action(n) ==
    IF n.aria_hidden = None
    THEN None
    ELSE Some([category |-> "QuickFix",
               applicability |-> "MaybeIncorrect",
               message |-> FixMessage,
               mutation |-> <<ChangeRemove>>])

\* <div aria-hidden="true" tabIndex="0" /> (no_aria_hidden_on_focusable.rs 25)
DivHiddenTabIndex0 ==
    [name |-> Some([kind |-> "JsxName", text |-> "div"]),
     aria_hidden |-> Some([static_value |-> Some("true")]),
     tabIndex |-> Some([value |-> Some([kind |-> "JsxString", text |-> <<"0">>,
                                        expression |-> None])]),
     href |-> FALSE]

InitAria ==
    /\ node \in JsxElements
    /\ found = NotRun
    /\ exec = NoExecution
    /\ signal = CHOOSE sig \in RuleSignals : TRUE
    /\ dsignal = NoDiagnosticSignal
    /\ last = NoCall
    /\ returned = [a \in Accessors |-> <<>>]
    /\ iter = NoIter
    /\ yielded = None
    /\ taken = None
    /\ hist = NoHist

\* the analyzer queries the rule on the element
Run ==
    /\ ~found.ran
    /\ found' = [ran |-> TRUE, signals |-> run(node)]
    /\ UNCHANGED <<node, signal, dsignal, last, returned, iter, yielded, taken, hist,
                   exec>>

NextAria == Run

SpecAria == InitAria /\ [][NextAria]_vars

----------------------------------------------------------------------------
(* execute_mode (biome_cli, execute/mod.rs 424-603): stdin, migrate or a    *)
(* traversal of the file system, its report and the Result handed back.     *)

MaxCount == 2

\* TraversalMode (mod.rs 119-198) with the fields execute_mode looks at:
\* the fix mode of check and lint, and whether content came from stdin
TraversalModes ==
    [kind : {"Check"}, fix_file_mode : OptionOf({"SafeFixes", "SafeAndUnsafeFixes"}),
     stdin : BOOLEAN]
    \cup [kind : {"Lint"}, fix_file_mode : OptionOf({"SafeFixes", "SafeAndUnsafeFixes"}),
          stdin : BOOLEAN]
    \cup [kind : {"Format", "Search"}, fix_file_mode : {None}, stdin : BOOLEAN]
    \cup [kind : {"CI", "Migrate"}, fix_file_mode : {None}, stdin : {FALSE}]

\* ReportMode (mod.rs 216-228)
ReportModes == {"Terminal", "Json", "GitHub", "GitLab", "Junit"}

Executions == [traversal_mode : TraversalModes, report_mode : ReportModes]

CliOptions == [error_on_warnings : BOOLEAN, no_errors_on_unmatched : BOOLEAN]

\* TraversalSummary: the counters execute_mode reads
TraversalSummaries ==
    [changed : 0..MaxCount, unchanged : 0..MaxCount, skipped : 0..MaxCount,
     errors : 0..MaxCount, warnings : 0..MaxCount]

\* Result<(), CliDiagnostic>
Ok == [ok |-> TRUE, error |-> "none", category |-> "none"]
Err(error, category) == [ok |-> FALSE, error |-> error, category |-> category]

\* Execution::as_stdin_file (mod.rs 389-397)
as_stdin_file(execution) ==
    IF execution.traversal_mode.kind \in {"Format", "Lint", "Check", "Search"}
    THEN execution.traversal_mode.stdin
    ELSE FALSE

\* Execution::as_diagnostic_category (mod.rs 320-329)
as_diagnostic_category(execution) ==
    CASE execution.traversal_mode.kind = "Check" -> "check"
      [] execution.traversal_mode.kind = "Lint" -> "lint"
      [] execution.traversal_mode.kind = "CI" -> "ci"
      [] execution.traversal_mode.kind = "Format" -> "format"
      [] execution.traversal_mode.kind = "Migrate" -> "migrate"
      [] execution.traversal_mode.kind = "Search" -> "search"

\* Execution::is_check_apply (mod.rs 347-355)
is_check_apply(execution) ==
    /\ execution.traversal_mode.kind = "Check"
    /\ execution.traversal_mode.fix_file_mode = Some("SafeFixes")

\* usize::saturating_sub
saturating_sub(a, b) == IF a >= b THEN a - b ELSE 0

\* an exit that looks at errors and warnings before it looks at the files processed
ExitResult_ErrorsFirst(execution, cli_options, summary) ==
    LET errors == summary.errors
        skipped == summary.skipped
        processed == summary.changed + summary.unchanged
        should_exit_on_warnings == summary.warnings > 0 /\ cli_options.error_on_warnings
        category == as_diagnostic_category(execution)
    IN  IF errors > 0 \/ should_exit_on_warnings
        THEN IF should_exit_on_warnings
             THEN IF is_check_apply(execution)
                  THEN Err("apply_warnings", category)
                  ELSE Err("check_warnings", category)
             ELSE IF is_check_apply(execution)
             THEN Err("apply_error", category)
             ELSE Err("check_error", category)
        ELSE IF saturating_sub(processed, skipped) = 0 /\ ~cli_options.no_errors_on_unmatched
        THEN Err("no_files_processed", "none")
        ELSE Ok

\* mod.rs 471-474 and 582-600: the Result once the report is written
ExitResult(execution, cli_options, summary) ==
    LET errors == summary.errors
        skipped == summary.skipped
        processed == summary.changed + summary.unchanged
        should_exit_on_warnings == summary.warnings > 0 /\ cli_options.error_on_warnings
    IN  IF saturating_sub(processed, skipped) = 0 /\ ~cli_options.no_errors_on_unmatched
        THEN Err("no_files_processed", "none")
        ELSE IF errors > 0 \/ should_exit_on_warnings
        THEN LET category == as_diagnostic_category(execution) IN
             IF should_exit_on_warnings
             THEN IF is_check_apply(execution)
                  THEN Err("apply_warnings", category)
                  ELSE Err("check_warnings", category)
             ELSE IF is_check_apply(execution)
             THEN Err("apply_error", category)
             ELSE Err("check_error", category)
        ELSE Ok

\* what a call of execute_mode leaves behind
Executed(route, traversal, reported, result) ==
    [ran |-> TRUE, execution |-> exec.execution, cli_options |-> exec.cli_options,
     route |-> route, traversal |-> traversal, reported |-> reported, result |-> result]

InitExecute ==
    /\ \E execution \in Executions, cli_options \in CliOptions :
          exec = [ran |-> FALSE, execution |-> execution, cli_options |-> cli_options]
    /\ signal = CHOOSE sig \in RuleSignals : TRUE
    /\ dsignal = NoDiagnosticSignal
    /\ last = NoCall
    /\ returned = [a \in Accessors |-> <<>>]
    /\ iter = NoIter
    /\ yielded = None
    /\ taken = None
    /\ hist = NoHist
    /\ node = NoNode
    /\ found = NotRun

\* mod.rs 439-448: content from stdin, no traversal; the Result is std_in::run's
ExecuteStdin ==
    /\ ~exec.ran
    /\ as_stdin_file(exec.execution)
    /\ \E result \in {Ok, Err("std_in::run", "none")} :
          exec' = Executed("stdin", None, FALSE, result)
    /\ UNCHANGED <<signal, dsignal, last, returned, iter, yielded, taken, hist,
                   node, found>>

\* mod.rs 449-464: migrate mode; the Result is migrate::run's
ExecuteMigrate ==
    /\ ~exec.ran
    /\ ~as_stdin_file(exec.execution)
    /\ exec.execution.traversal_mode.kind = "Migrate"
    /\ \E result \in {Ok, Err("migrate::run", "none")} :
          exec' = Executed("migrate", None, FALSE, result)
    /\ UNCHANGED <<signal, dsignal, last, returned, iter, yielded, taken, hist,
                   node, found>>

\* mod.rs 465-601: traverse(..)?, the reporter's write(..)?, then the exit logic
ExecuteTraversal ==
    /\ ~exec.ran
    /\ ~as_stdin_file(exec.execution)
    /\ exec.execution.traversal_mode.kind # "Migrate"
    /\ \/ exec' = Executed("traversal", None, FALSE, Err("traverse", "none"))
       \/ \E summary \in TraversalSummaries :
             \/ exec' = Executed("traversal", Some(summary), FALSE, Err("report", "none"))
             \/ exec' = Executed("traversal", Some(summary), TRUE,
                                 ExitResult(exec.execution, exec.cli_options, summary))
    /\ UNCHANGED <<signal, dsignal, last, returned, iter, yielded, taken, hist,
                   node, found>>

NextExecute == ExecuteStdin \/ ExecuteMigrate \/ ExecuteTraversal

SpecExecute == InitExecute /\ [][NextExecute]_vars

----------------------------------------------------------------------------
(* Properties of RuleSignal, checked under Spec *)

Hooks == {"R::diagnostic", "R::action", "R::text_range", "R::suppress", "R::transform"}

InvokedHooks(trace) == {trace[i] : i \in 1..Len(trace)} \cap Hooks

\* the hooks and the capability of the signal would yield a fix and a suppression
WouldYieldFix == IsSome(signal.rule.action)
WouldYieldSuppression ==
    IsSome(signal.rule.text_range) /\ IsSome(signal.suppression_action)

\* the (applicability, category) of each action of a sequence
Shape(actions) ==
    [i \in 1..Len(actions) |->
        [applicability |-> actions[i].applicability, category |-> actions[i].category]]

\* an action is the fix of the signal's rule / the suppression of its capability
IsFixOf(a, ruleAction) ==
    /\ a.category = ruleAction.category
    /\ a.message = ruleAction.message
    /\ a.mutation = ruleAction.mutation
IsSuppressionOf(a, suppressAction) ==
    /\ a.message = suppressAction.message
    /\ a.mutation = suppressAction.mutation

\* C1: with fix-kind none, actions() returns the empty sequence whatever the
\* fix hook, the anchor-range hook and the suppression capability would yield.
C1_DisabledYieldsNothing ==
    (last.op = "actions" /\ signal.options.fix_kind = Some("None"))
        => last.ret = <<>>

C1_Witness ==
    /\ last.op = "actions"
    /\ signal.options.fix_kind = Some("None")
    /\ signal.services
    /\ WouldYieldFix
    /\ WouldYieldSuppression

\* C2: with a fix-kind other than none and a context, actions() is decided by
\* (fix hook yields) and (range hook yields and capability yields): [fix,
\* suppression], [suppression], [fix] or [], the fix never after the suppression.
C2_ActionsDetermined ==
    (last.op = "actions" /\ signal.options.fix_kind # Some("None") /\ signal.services)
        => LET ret == last.ret
               nFix == IF WouldYieldFix THEN 1 ELSE 0
               nSup == IF WouldYieldSuppression THEN 1 ELSE 0
           IN  /\ Len(ret) = nFix + nSup
               /\ WouldYieldFix =>
                     /\ IsFixOf(ret[1], Unwrap(signal.rule.action))
                     /\ ret[1].rule_name = Some(RuleName)
               /\ WouldYieldSuppression =>
                     /\ IsSuppressionOf(ret[nFix + 1], Unwrap(signal.suppression_action))
                     /\ ret[nFix + 1].category = SuppressionCategory
                     /\ ret[nFix + 1].applicability = "Always"
               /\ \A i, j \in 1..Len(ret) :
                     ( /\ IsSome(signal.suppression_action)
                       /\ IsSuppressionOf(ret[i], Unwrap(signal.suppression_action))
                       /\ WouldYieldFix
                       /\ IsFixOf(ret[j], Unwrap(signal.rule.action)) ) => j < i

C2_Witness ==
    /\ last.op = "actions"
    /\ signal.options.fix_kind # Some("None")
    /\ signal.services
    /\ WouldYieldFix
    /\ WouldYieldSuppression
    /\ Len(last.ret) = 2

\* C3: under fix-kind safe every fix (non-suppression) action returned is
\* always-safe, under unsafe maybe-incorrect, whatever the rule declared.  A
\* fix is told both ways: by a category other than suppression, and as the
\* action built from what the fix hook returned.
C3_OverrideApplies ==
    last.op = "actions"
        => \A i \in 1..Len(last.ret) :
              ( \/ last.ret[i].category # SuppressionCategory
                \/ /\ WouldYieldFix
                   /\ IsFixOf(last.ret[i], Unwrap(signal.rule.action)) )
                  => /\ signal.options.fix_kind = Some("Safe")
                            => last.ret[i].applicability = "Always"
                     /\ signal.options.fix_kind = Some("Unsafe")
                            => last.ret[i].applicability = "MaybeIncorrect"

C3_Witness ==
    /\ last.op = "actions"
    /\ signal.options.fix_kind = Some("Safe")
    /\ WouldYieldFix
    /\ Unwrap(signal.rule.action).applicability = "MaybeIncorrect"
    /\ Len(last.ret) >= 1
    /\ last.ret[1].category # SuppressionCategory
    /\ last.ret[1].applicability = "Always"

\* C4: the suppression action returned by actions(), the one built from what
\* the suppression capability yields, has category suppression and
\* applicability always-safe under every fix-kind, whatever the fix declares
\* (its applicability and its category, the suppression category included).
C4_SuppressionAlwaysSafe ==
    last.op = "actions"
        => \A i \in 1..Len(last.ret) :
              ( /\ IsSome(signal.suppression_action)
                /\ IsSuppressionOf(last.ret[i], Unwrap(signal.suppression_action)) )
                  => /\ last.ret[i].category = SuppressionCategory
                     /\ last.ret[i].applicability = "Always"

C4_Witness ==
    /\ last.op = "actions"
    /\ signal.options.fix_kind = Some("Unsafe")
    /\ WouldYieldFix
    /\ Unwrap(signal.rule.action).applicability = "Always"
    /\ Unwrap(signal.rule.action).category = SuppressionCategory
    /\ Len(last.ret) = 2
    /\ last.ret[1].applicability = "MaybeIncorrect"
    /\ last.ret[2].category = SuppressionCategory
    /\ last.ret[2].applicability = "Always"
    /\ IsSuppressionOf(last.ret[2], Unwrap(signal.suppression_action))

\* C5: with no fix-kind configured the fix action carries the applicability the
\* rule's action declares; a maybe-incorrect quick-fix with a resolved range
\* and a suppression yields [{maybe-incorrect, quick-fix}, {always-safe,
\* suppression}].
C5_UnconfiguredKeepsDeclared ==
    (last.op = "actions" /\ signal.options.fix_kind = None
        /\ signal.services /\ WouldYieldFix)
        => /\ Len(last.ret) >= 1
           /\ last.ret[1].applicability = Unwrap(signal.rule.action).applicability
           /\ ( /\ Unwrap(signal.rule.action).applicability = "MaybeIncorrect"
                /\ Unwrap(signal.rule.action).category = "QuickFix"
                /\ WouldYieldSuppression )
                 => Shape(last.ret) =
                        << [applicability |-> "MaybeIncorrect", category |-> "QuickFix"],
                           [applicability |-> "Always", category |-> SuppressionCategory] >>

C5_Witness ==
    /\ last.op = "actions"
    /\ signal.options.fix_kind = None
    /\ signal.services
    /\ WouldYieldFix
    /\ Unwrap(signal.rule.action).applicability = "MaybeIncorrect"
    /\ Unwrap(signal.rule.action).category = "QuickFix"
    /\ WouldYieldSuppression
    /\ Len(last.ret) = 2

\* C7: when the rule context cannot be built, diagnostic() returns none,
\* actions() and transformations() return the empty sequence, and the call
\* invokes no rule hook.
C7_NoContextNoResult ==
    (~signal.services /\ last.op \in Accessors)
        => /\ last.ret = <<>>
           /\ InvokedHooks(last.trace) = {}
           /\ \A a \in Accessors :
                 \A i \in 1..Len(returned[a]) : returned[a][i] = <<>>

C7_Witness ==
    /\ ~signal.services
    /\ \A a \in Accessors : Len(returned[a]) >= 1
    /\ signal.options.fix_kind # Some("None")
    /\ IsSome(signal.rule.diagnostic)
    /\ IsSome(signal.rule.transform)
    /\ WouldYieldFix
    /\ WouldYieldSuppression

\* the positions of a trace at which a collaborator was invoked
Positions(trace, name) == {i \in 1..Len(trace) : trace[i] = name}

\* C16, as stated: actions() resolves the fix-kind policy before anything
\* else runs; with the policy none it returns before the context is built and
\* before any hook or the suppression capability; with the policy safe or
\* unsafe the override takes effect only on an action the fix hook returned.
C16_PolicyBeforeAnythingElse ==
    last.op = "actions"
        => /\ last.trace[1] = "rule_fix_kind"
           /\ signal.options.fix_kind = Some("None") => last.trace = <<"rule_fix_kind">>
           /\ signal.options.fix_kind \in {Some("Safe"), Some("Unsafe")}
                 => \A i \in Positions(last.trace, "unwrap_or") :
                       i > 1 /\ last.trace[i - 1] = "R::action"

\* C16, amended: actions() resolves the fix-kind policy before anything else
\* runs except the read of the configured globals, which comes first; with the
\* policy none it returns before the rule options are read, the context is
\* built, a hook is called or the suppression capability is asked; with the
\* policy safe or unsafe the override takes effect only on an action the fix
\* hook has returned.
C16_PolicyResolvedFirst ==
    last.op = "actions"
        => /\ last.trace[1] = "options.globals"
           /\ last.trace[2] = "rule_fix_kind"
           /\ Positions(last.trace, "rule_fix_kind") = {2}
           /\ Positions(last.trace, "options.globals") = {1}
           /\ signal.options.fix_kind = Some("None")
                 => last.trace = <<"options.globals", "rule_fix_kind">>
           /\ signal.options.fix_kind \in {Some("Safe"), Some("Unsafe")}
                 => /\ \A i \in Positions(last.trace, "unwrap_or") :
                          i > 1 /\ last.trace[i - 1] = "R::action"
                    /\ Positions(last.trace, "unwrap_or") # {}
                          <=> (signal.services /\ WouldYieldFix)

C16_Witness ==
    /\ last.op = "actions"
    /\ signal.options.fix_kind = Some("Unsafe")
    /\ signal.services
    /\ WouldYieldFix
    /\ Unwrap(signal.rule.action).applicability = "Always"
    /\ last.trace[1] = "options.globals"
    /\ last.trace[2] = "rule_fix_kind"
    /\ last.trace[6] = "RuleContext::new"
    /\ last.trace[7] = "R::action"
    /\ last.trace[8] = "unwrap_or"
    /\ last.ret[1].applicability = "MaybeIncorrect"
    /\ returned["diagnostic"] = <<>>

\* C17: diagnostic() invokes no hook but the diagnostic hook; actions()
\* invokes the action and text_range hooks, the suppress hook exactly when
\* text_range yields a range, and neither the diagnostic nor the transform
\* hook; transformations() invokes no hook but the transform hook; the
\* suppression capability is not asked when text_range yields no range.
C17_OnlyNeededHooks ==
    /\ last.op = "diagnostic"
          => InvokedHooks(last.trace) = (IF signal.services THEN {"R::diagnostic"} ELSE {})
    /\ last.op = "transformations"
          => InvokedHooks(last.trace) = (IF signal.services THEN {"R::transform"} ELSE {})
    /\ last.op = "actions"
          => /\ InvokedHooks(last.trace) \subseteq {"R::action", "R::text_range", "R::suppress"}
             /\ (signal.services /\ signal.options.fix_kind # Some("None"))
                   => {"R::action", "R::text_range"} \subseteq InvokedHooks(last.trace)
             /\ "R::suppress" \in InvokedHooks(last.trace)
                   <=> /\ "R::text_range" \in InvokedHooks(last.trace)
                       /\ IsSome(signal.rule.text_range)
             /\ Positions(last.trace, "SuppressionAction") # {}
                   => IsSome(signal.rule.text_range)

C17_Witness ==
    /\ last.op = "actions"
    /\ signal.services
    /\ signal.options.fix_kind = None
    /\ signal.rule.text_range = None
    /\ IsSome(signal.suppression_action)
    /\ IsSome(signal.rule.diagnostic)
    /\ IsSome(signal.rule.transform)
    /\ InvokedHooks(last.trace) = {"R::action", "R::text_range"}
    /\ Len(returned["diagnostic"]) = 1
    /\ Len(returned["transformations"]) = 1

\* C18: transformations() returns at most one transformation: the one holding
\* the batch the transform hook returned, or none when the hook yields none.
C18_AtMostOneTransformation ==
    \A i \in 1..Len(returned["transformations"]) :
        LET r == returned["transformations"][i] IN
        /\ Len(r) <= 1
        /\ (signal.services /\ IsSome(signal.rule.transform))
              => r = <<[mutation |-> Unwrap(signal.rule.transform)]>>
        /\ signal.rule.transform = None => r = <<>>

C18_Witness ==
    /\ last.op = "transformations"
    /\ signal.services
    /\ IsSome(signal.rule.transform)
    /\ Len(last.ret) = 1
    /\ last.ret[1].mutation = <<ChangeReplace>>
    /\ returned["actions"] = <<>>

\* C19: every action actions() returns, fix or suppression, carries the
\* identity (group name, rule name) of the signal's rule, never an absent one.
C19_ActionsCarryRuleIdentity ==
    \A i \in 1..Len(returned["actions"]) :
        \A k \in 1..Len(returned["actions"][i]) :
            returned["actions"][i][k].rule_name = Some(RuleName)

C19_Witness ==
    /\ last.op = "actions"
    /\ Len(last.ret) = 2
    /\ last.ret[1].category = "Refactor"
    /\ last.ret[1].message = FixMessage
    /\ last.ret[2].category = SuppressionCategory
    /\ last.ret[1].rule_name = Some(<<"a11y", "noAriaHiddenOnFocusable">>)
    /\ last.ret[2].rule_name = Some(<<"a11y", "noAriaHiddenOnFocusable">>)
    /\ signal.options.fix_kind = Some("Safe")

\* the signal with the rule's fix kind configured as k, all else equal
WithFixKind(self, k) == [self EXCEPT !.options.fix_kind = k]

\* the policies under which actions() goes on to the hooks
EnabledPolicies == {None, Some("Safe"), Some("Unsafe")}

\* an action with its applicability left out
WithoutApplicability(a) ==
    [rule_name |-> a.rule_name, category |-> a.category,
     message |-> a.message, mutation |-> a.mutation]

\* C22: a fix-kind override changes nothing but the applicability of the fix
\* action: its category, message and mutation are those of the action the fix
\* hook returned, and actions() under safe, unsafe and unconfigured policy
\* returns the same actions up to the fix action's applicability, the
\* suppression action being the same in presence, message and mutation.
C22_OverrideTouchesOnlyApplicability ==
    (last.op = "actions" /\ signal.options.fix_kind \in EnabledPolicies)
        => /\ (signal.services /\ WouldYieldFix)
                 => /\ Len(last.ret) >= 1
                    /\ IsFixOf(last.ret[1], Unwrap(signal.rule.action))
           /\ \A k \in EnabledPolicies :
                 LET other == RuleSignal_actions(WithFixKind(signal, k)).ret IN
                 /\ Len(other) = Len(last.ret)
                 /\ \A i \in 1..Len(other) :
                       /\ WithoutApplicability(other[i]) = WithoutApplicability(last.ret[i])
                       /\ ( /\ IsSome(signal.suppression_action)
                            /\ IsSuppressionOf(other[i], Unwrap(signal.suppression_action)) )
                             => other[i] = last.ret[i]

C22_Witness ==
    /\ last.op = "actions"
    /\ signal.options.fix_kind = Some("Safe")
    /\ signal.services
    /\ WouldYieldFix
    /\ WouldYieldSuppression
    /\ signal.rule.action = NoAriaHiddenOnFocusable_action(DivHiddenTabIndex0)
    /\ last.ret[1].applicability = "Always"
    /\ last.ret[1].category = "QuickFix"
    /\ last.ret[1].mutation = <<ChangeRemove>>
    /\ last.ret[2].category = SuppressionCategory
    /\ RuleSignal_actions(WithFixKind(signal, None)).ret[1].applicability = "MaybeIncorrect"

\* C23: diagnostic() and transformations() return the same result whatever
\* fix kind is configured for the rule (none, safe, unsafe or unconfigured)
\* and never look the policy up; a rule whose fix is disabled still reports
\* its diagnostic.
C23_PolicyBlindAccessors ==
    /\ last.op = "diagnostic"
          => /\ \A k \in OptionOf(FixKinds) :
                   RuleSignal_diagnostic(WithFixKind(signal, k)).ret = last.ret
             /\ Positions(last.trace, "rule_fix_kind") = {}
             /\ (signal.services /\ IsSome(signal.rule.diagnostic))
                   => last.ret = Some(AnalyzerDiagnostic_from(Unwrap(signal.rule.diagnostic)))
    /\ last.op = "transformations"
          => /\ \A k \in OptionOf(FixKinds) :
                   RuleSignal_transformations(WithFixKind(signal, k)).ret = last.ret
             /\ Positions(last.trace, "rule_fix_kind") = {}

C23_Witness ==
    /\ last.op = "diagnostic"
    /\ signal.options.fix_kind = Some("None")
    /\ signal.services
    /\ IsSome(last.ret)
    /\ WouldYieldFix
    /\ Len(returned["actions"]) >= 1
    /\ returned["actions"][1] = <<>>
    /\ Len(returned["transformations"]) >= 1
    /\ returned["transformations"][1] # <<>>

----------------------------------------------------------------------------
(* Properties of DiagnosticSignal, checked under SpecDiagnosticSignal *)

Count(trace, name) == Cardinality({i \in 1..Len(trace) : trace[i] = name})

\* C9: DiagnosticSignal::diagnostic() always returns a present diagnostic: the
\* factory's value, wrapped, the factory being invoked exactly once in the
\* call, with or without a fix factory attached.
C9_DiagnosticAlwaysPresent ==
    last.op = "diagnostic"
        => /\ IsSome(last.ret)
           /\ last.ret = Some([kind |-> "Raw", diagnostic |-> [source |-> dsignal.diagnostic]])
           /\ Count(last.trace, "diagnostic factory") = 1

C9_Witness ==
    /\ last.op = "diagnostic"
    /\ dsignal.action # DefaultFactory
    /\ Invoke(dsignal.action) = None
    /\ IsSome(last.ret)

\* C10: DiagnosticSignal::actions() returns exactly the action of the attached
\* fix factory when it yields one, and the empty sequence otherwise; never more
\* than one action and none that the factory did not yield.
C10_AtMostTheFactoryAction ==
    last.op = "actions"
        => /\ Len(last.ret) <= 1
           /\ (dsignal.action # DefaultFactory /\ IsSome(dsignal.action.yields))
                 => last.ret = <<Unwrap(dsignal.action.yields)>>
           /\ (dsignal.action = DefaultFactory \/ dsignal.action.yields = None)
                 => last.ret = <<>>
           /\ \A i \in 1..Len(last.ret) : last.ret[i] = Unwrap(dsignal.action.yields)

C10_Witness ==
    /\ last.op = "actions"
    /\ dsignal.action # DefaultFactory
    /\ IsSome(dsignal.action.yields)
    /\ Unwrap(dsignal.action.yields).category = "QuickFix"
    /\ Len(last.ret) = 1

\* C11: for every DiagnosticSignal built by new and any number of with_action
\* calls, transformations() returns the empty sequence; attaching a fix action
\* never makes a transformation appear.
C11_NoTransformations ==
    last.op = "transformations"
        => /\ last.ret = <<>>
           /\ dsignal.transformation = DefaultFactory

C11_Witness ==
    /\ last.op = "transformations"
    /\ last.ret = <<>>
    /\ dsignal.action # DefaultFactory
    /\ IsSome(Invoke(dsignal.action))
    /\ Unwrap(Invoke(dsignal.action)).mutation # <<>>

----------------------------------------------------------------------------
(* Properties of the views, checked under SpecViews *)

\* C8: an action whose mutation batch holds no edit is projected without
\* failure in both views: the flat item gets the empty span and the empty
\* replacement, the advice the empty replacement, and both keep the action's
\* applicability and message.
C8_EmptyMutationProjects ==
    (IsSome(taken) /\ Unwrap(taken).mutation = <<>>)
        => /\ iter.kind = "code_actions"
                 => /\ IsSome(yielded)
                    /\ Unwrap(yielded).suggestion.span = <<0, 0>>
                    /\ Unwrap(yielded).suggestion.suggestion = <<>>
                    /\ Unwrap(yielded).suggestion.applicability = Unwrap(taken).applicability
                    /\ Unwrap(yielded).suggestion.msg = Unwrap(taken).message
           /\ iter.kind = "advices"
                 => /\ IsSome(yielded)
                    /\ Unwrap(yielded).suggestion = <<>>
                    /\ Unwrap(yielded).applicability = Unwrap(taken).applicability
                    /\ Unwrap(yielded).msg = Unwrap(taken).message

C8_Witness ==
    /\ iter.kind = "code_actions"
    /\ IsSome(taken)
    /\ Unwrap(taken).mutation = <<>>
    /\ Unwrap(taken).applicability = "MaybeIncorrect"
    /\ IsSome(yielded)
    /\ Unwrap(yielded).suggestion.span = <<0, 0>>

\* the items a next() actually handed out, as hist records them
Remaining == Len(hist.source) - Len(hist.consumed)

\* C12: the action iterator, the transformation iterator and both views are
\* finite, size-known and single-pass: len() is the number of items not yet
\* yielded, items come out once each in the order the sequence was built, a
\* view of a partly consumed iterator yields the remaining actions, and after
\* a next() has returned none every later next() returns none.
C12_SizeKnownSinglePass ==
    /\ [](/\ Iter_len(iter) = Remaining
          /\ hist.consumed \o iter.items = hist.source
          /\ hist.exhausted => (iter.items = <<>> /\ hist.consumed = hist.source))
    /\ [][ /\ Iter_len(iter') \in {Iter_len(iter), Iter_len(iter) - 1}
           /\ (Iter_len(iter') = Iter_len(iter) - 1) <=> IsSome(taken')
           /\ IsSome(taken') => taken' = Some(hist.source[Len(hist.consumed) + 1])
           /\ hist.exhausted => (yielded' = None /\ taken' = None /\ hist'.exhausted)
         ]_vars

C12_Witness ==
    /\ iter.kind = "advices"
    /\ Len(hist.source) = 2
    /\ hist.source[1] # hist.source[2]
    /\ Len(hist.consumed) = 2
    /\ hist.exhausted
    /\ yielded = None

\* the range from the first changed position to the last one of a batch; the
\* empty range for a batch without changes
CoveringSpan(mutation) ==
    IF mutation = <<>>
    THEN <<0, 0>>
    ELSE <<Min({mutation[i].start : i \in 1..Len(mutation)}),
           Max({mutation[i].end : i \in 1..Len(mutation)})>>

\* C20: the flat item of an action carries its rule identity, category,
\* applicability and message unchanged, the covering span and no labels; the
\* advice of an action carries the applicability, message and replacement of
\* that action's flat item; each view hands out one projection per action of
\* the underlying sequence, in its order.
C20_ViewsAreProjections ==
    /\ [](iter.kind \in {"code_actions", "advices"}
            => /\ IsSome(yielded) <=> IsSome(taken)
               /\ IsSome(taken) => taken = Some(hist.source[Len(hist.consumed)])
               /\ Len(hist.consumed) + Iter_len(iter) = Len(hist.source)
               /\ (iter.kind = "code_actions" /\ IsSome(taken))
                     => LET item == Unwrap(yielded)
                            action == Unwrap(taken)
                        IN  /\ item.rule_name = action.rule_name
                            /\ item.category = action.category
                            /\ item.suggestion.applicability = action.applicability
                            /\ item.suggestion.msg = action.message
                            /\ item.suggestion.span = CoveringSpan(action.mutation)
                            /\ item.suggestion.labels = <<>>
               /\ (iter.kind = "advices" /\ IsSome(taken))
                     => LET advice == Unwrap(yielded)
                            item == From_CodeSuggestionItem(Unwrap(taken))
                        IN  /\ advice.applicability = item.suggestion.applicability
                            /\ advice.msg = item.suggestion.msg
                            /\ advice.suggestion = item.suggestion.suggestion)
    /\ [][(iter.kind = "actions" /\ iter'.kind # "actions")
             => (iter'.items = iter.items /\ Iter_len(iter') = Iter_len(iter))]_vars

C20_Witness ==
    /\ iter.kind = "code_actions"
    /\ Len(hist.source) = 2
    /\ Len(hist.consumed) = 2
    /\ IsSome(taken)
    /\ Unwrap(taken).rule_name = Some(RuleName)
    /\ Unwrap(taken).mutation # <<>>
    /\ Unwrap(taken).category = SuppressionCategory
    /\ hist.source[1] # hist.source[2]
    /\ Unwrap(yielded).suggestion.span = CoveringSpan(Unwrap(taken).mutation)
    /\ Unwrap(yielded).suggestion.span # <<0, 0>>

----------------------------------------------------------------------------
(* Properties of NoAriaHiddenOnFocusable::run, checked under SpecAria *)

\* the static value of the element's aria-hidden attribute, if any
AriaHiddenValue(n) ==
    IF IsSome(n.aria_hidden) THEN Unwrap(n.aria_hidden).static_value ELSE None

\* the integer the element's tabIndex value parses as, if it is given as a
\* string, a string literal, a number literal or a signed numeric literal
TabIndexInteger(n) ==
    IF n.tabIndex = None \/ Unwrap(n.tabIndex).value = None
    THEN None
    ELSE LET v == Unwrap(Unwrap(n.tabIndex).value) IN
         IF v.kind = "JsxString"
         THEN parse_i32(v.text)
         ELSE IF v.kind = "JsxExpressionAttributeValue" /\ IsSome(v.expression)
                 /\ \/ Unwrap(v.expression).kind \in
                          {"JsStringLiteralExpression", "JsNumberLiteralExpression"}
                    \/ Unwrap(v.expression).signed_numeric
         THEN parse_i32(Unwrap(v.expression).text)
         ELSE None

\* natively focusable, as in the rule's documentation: a link with an href, a button
NativelyFocusable(n) ==
    /\ is_element(n)
    /\ \/ Unwrap(n.name).text = "a" /\ n.href
       \/ Unwrap(n.name).text = "button"

\* focusable: a tab index of 0 or more, or natively focusable with no tabIndex
Focusable(n) ==
    /\ is_element(n)
    /\ IF n.tabIndex = None
       THEN NativelyFocusable(n)
       ELSE IsSome(TabIndexInteger(n)) /\ Unwrap(TabIndexInteger(n)) >= 0

\* C14: run yields a signal for every focusable element carrying
\* aria-hidden="true", a natively focusable element without tabIndex included.
C14_FocusableHiddenIsReported ==
    (found.ran /\ Focusable(node) /\ AriaHiddenValue(node) = Some("true"))
        => IsSome(found.signals)

\* C15, as stated: for a JSX element with an aria-hidden attribute whose
\* static value is not "false" and a tabIndex that parses as the integer n,
\* run yields a signal exactly when n >= 0; without an aria-hidden attribute
\* it yields none.
C15_TabIndexDecidesAnyElement ==
    found.ran
        => /\ ( /\ IsSome(AriaHiddenValue(node))
                /\ Unwrap(AriaHiddenValue(node)) # "false"
                /\ IsSome(TabIndexInteger(node)) )
                 => (IsSome(found.signals) <=> Unwrap(TabIndexInteger(node)) >= 0)
           /\ node.aria_hidden = None => found.signals = None

\* C15, amended: for a JSX element whose tag is named by a plain JSX name (not
\* a component reference or a member name) with an aria-hidden attribute whose
\* static value is not "false" and a tabIndex whose text parses as the i32 n,
\* run yields a signal exactly when n >= 0; an element of any name without an
\* aria-hidden attribute yields none.
C15_TabIndexDecides ==
    found.ran
        => /\ ( /\ is_element(node)
                /\ IsSome(AriaHiddenValue(node))
                /\ Unwrap(AriaHiddenValue(node)) # "false"
                /\ IsSome(TabIndexInteger(node)) )
                 => (IsSome(found.signals) <=> Unwrap(TabIndexInteger(node)) >= 0)
           /\ node.aria_hidden = None => found.signals = None

C15_Witness ==
    /\ found.ran
    /\ is_element(node)
    /\ AriaHiddenValue(node) = Some("true")
    /\ TabIndexInteger(node) = Some(0)
    /\ Unwrap(Unwrap(node.tabIndex).value).kind = "JsxExpressionAttributeValue"
    /\ found.signals = Some(Unit)

----------------------------------------------------------------------------
(* Properties of execute_mode, checked under SpecExecute *)

\* the counters of the traversal that execute_mode ran
Summary == Unwrap(exec.traversal)
Processed == Summary.changed + Summary.unchanged
NoFilesProcessed ==
    /\ (IF Processed > Summary.skipped THEN Processed - Summary.skipped ELSE 0) = 0
    /\ ~exec.cli_options.no_errors_on_unmatched
ExitOnWarnings == Summary.warnings > 0 /\ exec.cli_options.error_on_warnings

\* C21: after a traversal whose report was written, execute_mode returns Ok
\* exactly when files were processed beyond the skipped ones (or
\* no_errors_on_unmatched is set), there is no error and warnings do not
\* force an exit; "no files processed" is returned before any error or
\* warning outcome, and the warnings error before the errors error.
C21_ExitOutcome ==
    (exec.ran /\ exec.route = "traversal" /\ exec.reported)
        => /\ exec.result.ok <=> /\ ~NoFilesProcessed
                                 /\ Summary.errors = 0
                                 /\ ~ExitOnWarnings
           /\ NoFilesProcessed => exec.result.error = "no_files_processed"
           /\ (~NoFilesProcessed /\ ExitOnWarnings)
                 => exec.result.error \in {"check_warnings", "apply_warnings"}
           /\ (~NoFilesProcessed /\ ~ExitOnWarnings /\ Summary.errors > 0)
                 => exec.result.error \in {"check_error", "apply_error"}

C21_Witness ==
    /\ exec.ran
    /\ exec.route = "traversal"
    /\ exec.reported
    /\ Summary.skipped > Processed
    /\ Summary.errors > 0
    /\ ExitOnWarnings
    /\ ~exec.cli_options.no_errors_on_unmatched
    /\ exec.result = Err("no_files_processed", "none")

====
